---- MODULE Spec2Model ----
(***************************************************************************)
(* LLM_Chrome_Extension: the streaming response handler of LLMManager      *)
(* (sendMessage -> sendOllamaMessage / sendVLLMMessage ->                  *)
(* handleStreamResponse), the message pattern validator, the request the   *)
(* senders build, the ConversationManager list and the send guard of       *)
(* LLMChatApp.                                                             *)
(*                                                                         *)
(*   Spec     one request, from sendMessage to the settling of its promise *)
(*   SpecT    one testConnection call, to its return                       *)
(*   SpecV    validateMessagePattern applied to a list                     *)
(*   SpecR    the request built for any configuration and history          *)
(*   SpecC    ConversationManager and the store it saves the list to      *)
(*   SpecApp  LLMChatApp: the send and clear handlers in any interleaving *)
(*   SpecB    the background script: context-menu clicks and the         *)
(*            checkContextAction requests, in any interleaving           *)
(*                                                                         *)
(* Text is a sequence of one-character strings.  The response body is a    *)
(* sequence of bytes; every character is one byte except E_ACUTE, which    *)
(* is the two bytes LEAD, CONT (a UTF-8 multi-byte character).             *)
(*                                                                         *)
(* JSON is abstracted to a small wire grammar with the same outcomes as    *)
(* JSON.parse on the frames of the two backends:                           *)
(*     "{" letters* flag? "}"                                              *)
(* letters are the content delta; the flag is the done / finish_reason     *)
(* field: "0" is false / null, "1" is true / a reason, no flag means the   *)
(* field is absent.  Every other text makes JSON.parse throw.  The SSE     *)
(* prefix 'data: ' is the two characters "d" ":" and the literal '[DONE]'  *)
(* is the two characters "[" "]".                                          *)
(***************************************************************************)
EXTENDS Integers, Sequences, FiniteSets, TLC

VARIABLES
  pc,            \* position of the one request: idle, fetching, reading, done
  apiType,       \* currentConfig.apiType
  params,        \* currentConfig.params
  args,          \* sendMessage: message and conversationHistory
  cbThrows,      \* the caller's callbacks that throw when invoked
  request,       \* the HTTP request issued by fetch (or NoRequest)
  fetchCount,    \* number of fetch calls issued
  response,      \* the response of fetch (NoResponse before it arrived)
  frames,        \* the lines the backend has transmitted, in order
  sealed,        \* the last line of frames was sent without its newline
  wire,          \* bytes transmitted and not yet delivered by reader.read()
  pending,       \* bytes held by the streaming TextDecoder
  buffer,        \* handleStreamResponse: buffer
  fullResponse,  \* handleStreamResponse: fullResponse
  calls,         \* every callback invocation, in order
  yielded,       \* the lines array of every read, concatenated
  parsed,        \* every line handed to parseOllamaChunk / parseVLLMChunk
  parseErrors,   \* every line whose catch (parseError) block ran
  reader,        \* none, locked, released
  releases,      \* number of reader.releaseLock() calls
  readEnd,       \* how reading ended: none, exhausted, error
  outcome,       \* the promise of sendMessage: pending, resolved, rejected
  test,          \* testConnection: none, sending, returned (a value), rejected
  vpc,           \* validator run: off, input, validated
  vIn,           \* validator run: the list given
  vOut,          \* validator run: the list returned
  conversationHistory,  \* ConversationManager: the live in-memory list
  nextId,        \* ConversationManager: ids handed out by Utils.generateId
  stored,        \* chrome.storage.local: the value under the history key
  pendingWrites, \* chrome.storage.local.set calls issued and not yet settled
  lastWriteFailed,      \* the write that settled last set chrome.runtime.lastError
  writes,        \* number of chrome.storage.local.set calls issued
  lastOp,        \* ConversationManager: the latest call and what it returned
  isSendingMessage,     \* LLMChatApp: the send guard
  sendButtonEnabled,    \* UIManager: the send control is enabled
  tasks,         \* LLMChatApp: where each handler's send stands
  admitted,      \* LLMChatApp: number of sends begun
  rejected,      \* LLMChatApp: number of invocations the guard returned from
  lastRequest,   \* sendToLLM: its latest call of llmManager.sendMessage
  currentSelection,     \* background.js: currentSelection
  contextStore,  \* chrome.storage.local: the context action keys
  storageCalls,  \* background.js: storage calls issued and not yet performed
  timers,        \* background.js: setTimeout callbacks that remove the keys
  checks,        \* every checkContextAction request, in order of arrival
  clicks         \* number of context-menu clicks handled

vars == <<pc, apiType, params, args, cbThrows, request, fetchCount, response, frames, sealed,
          wire, pending, buffer, fullResponse, calls, yielded, parsed,
          parseErrors, reader,
          releases, readEnd, outcome, test, vpc, vIn, vOut, conversationHistory,
          nextId, stored, pendingWrites, lastWriteFailed, writes, lastOp,
          isSendingMessage, sendButtonEnabled, tasks, admitted, rejected,
          lastRequest, currentSelection, contextStore, storageCalls, timers,
          checks, clicks>>

streamVars == <<frames, sealed, wire, pending, buffer, fullResponse, yielded,
                parsed, parseErrors, readEnd>>

validatorVars == <<vpc, vIn, vOut>>

inputVars == <<params, args>>

conversationVars == <<conversationHistory, nextId>>

storeVars == <<stored, pendingWrites, lastWriteFailed, writes>>

appVars == <<isSendingMessage, sendButtonEnabled, tasks, admitted, rejected,
             lastRequest>>

backgroundVars == <<currentSelection, contextStore, storageCalls, timers,
                    checks, clicks>>

llmVars == <<pc, apiType, cbThrows, request, fetchCount, response, calls, reader,
             releases, outcome, test, streamVars, validatorVars, inputVars>>

----------------------------------------------------------------------------
\* Bounds of the model

\* most lines in one response body
MaxFrames == 3

\* most entries in a list given to the validator
MaxMessages == 3

\* most entries in a conversation history given to sendMessage
MaxHistory == 2

\* most context-menu clicks in one run
MaxClicks == 2

\* most checkContextAction requests in one run
MaxChecks == 3

----------------------------------------------------------------------------
\* Text

NL == "\n"
SP == " "
E_ACUTE == "e_acute"
LEAD == "C3"
CONT == "A9"
REPLACEMENT == "U+FFFD"

\* String.prototype.trim removes these from both ends
Whitespace == {SP, NL}

RECURSIVE TrimStart(_)
TrimStart(s) ==
  IF s = <<>> THEN s
  ELSE IF Head(s) \in Whitespace THEN TrimStart(Tail(s)) ELSE s

RECURSIVE TrimEnd(_)
TrimEnd(s) ==
  IF s = <<>> THEN s
  ELSE IF s[Len(s)] \in Whitespace THEN TrimEnd(SubSeq(s, 1, Len(s) - 1)) ELSE s

Trim(s) == TrimEnd(TrimStart(s))

RECURSIVE Concat(_)
Concat(ss) == IF ss = <<>> THEN <<>> ELSE Head(ss) \o Concat(Tail(ss))

\* the UTF-8 encoding of a text
RECURSIVE Encode(_)
Encode(s) ==
  IF s = <<>> THEN <<>>
  ELSE (IF Head(s) = E_ACUTE THEN <<LEAD, CONT>> ELSE <<Head(s)>>) \o Encode(Tail(s))

\* TextDecoder.decode(value, { stream: true }) with `held` the bytes kept from
\* the previous call: the text produced and the bytes kept for the next call
RECURSIVE DecodeFrom(_, _, _)
DecodeFrom(held, bytes, text) ==
  IF bytes = <<>> THEN [text |-> text, held |-> held]
  ELSE LET b == Head(bytes) IN
    IF held # <<>>
      THEN IF b = CONT
             THEN DecodeFrom(<<>>, Tail(bytes), Append(text, E_ACUTE))
             ELSE DecodeFrom(<<>>, bytes, Append(text, REPLACEMENT))
      ELSE IF b = LEAD THEN DecodeFrom(<<LEAD>>, Tail(bytes), text)
      ELSE IF b = CONT THEN DecodeFrom(<<>>, Tail(bytes), Append(text, REPLACEMENT))
      ELSE DecodeFrom(<<>>, Tail(bytes), Append(text, b))

Decode(held, bytes) == DecodeFrom(held, bytes, <<>>)

\* String.prototype.split('\n'): cur is the segment being read, acc the
\* segments before it
RECURSIVE SplitFrom(_, _, _, _)
SplitFrom(s, i, cur, acc) ==
  IF i > Len(s) THEN Append(acc, cur)
  ELSE IF s[i] = NL THEN SplitFrom(s, i + 1, <<>>, Append(acc, cur))
  ELSE SplitFrom(s, i + 1, Append(cur, s[i]), acc)

SplitLines(s) == SplitFrom(s, 1, <<>>, <<>>)

\* a buffer that forgets the partial last line
NextBufferDropsTail(segments) == <<>>

\* buffer = lines.pop() || ''
NextBuffer(segments) == segments[Len(segments)]

\* lines after lines.pop()
CompleteLines(segments) == SubSeq(segments, 1, Len(segments) - 1)

\* line.trim() === ''
IsBlank(line) == Trim(line) = <<>>

StartsWith(s, p) == Len(s) >= Len(p) /\ SubSeq(s, 1, Len(p)) = p

----------------------------------------------------------------------------
\* The response parsers

Letters == {"a", "b", E_ACUTE}
Flags == {"0", "1"}
DataPrefix == <<"d", ":">>
DoneLiteral == <<"[", "]">>

\* JSON.parse on the wire grammar: ok is FALSE where JSON.parse throws.
\* JSON.parse accepts white space around the value.
JSONParse(s) ==
  LET t == Trim(s)
      n == Len(t)
      wellFormed ==
        /\ n >= 2
        /\ t[1] = "{"
        /\ t[n] = "}"
        /\ \A i \in 2..(n - 1) : t[i] \in Letters \/ (i = n - 1 /\ t[i] \in Flags)
      hasFlag == n >= 3 /\ t[n - 1] \in Flags
  IN IF ~wellFormed THEN [ok |-> FALSE, content |-> <<>>, flag |-> "absent"]
     ELSE [ok |-> TRUE,
           content |-> SubSeq(t, 2, IF hasFlag THEN n - 2 ELSE n - 1),
           flag |-> IF hasFlag THEN t[n - 1] ELSE "absent"]

Thrown == [kind |-> "throw", content |-> <<>>, done |-> FALSE]
NullChunk == [kind |-> "null", content |-> <<>>, done |-> FALSE]
Chunk(c, d) == [kind |-> "chunk", content |-> c, done |-> d]

\* done: data.done || false
parseOllamaChunk(line) ==
  LET data == JSONParse(line) IN
    IF ~data.ok THEN Thrown ELSE Chunk(data.content, data.flag = "1")

\* a parser that hands '[DONE]' to JSON.parse
parseVLLMChunkWithoutDoneLiteral(line) ==
  IF ~StartsWith(line, DataPrefix) THEN NullChunk
  ELSE LET data == JSONParse(SubSeq(line, Len(DataPrefix) + 1, Len(line))) IN
    IF ~data.ok THEN Thrown ELSE Chunk(data.content, data.flag # "0")

\* done: data.choices?.[0]?.finish_reason !== null
parseVLLMChunk(line) ==
  IF ~StartsWith(line, DataPrefix) THEN NullChunk
  ELSE LET dataStr == SubSeq(line, Len(DataPrefix) + 1, Len(line)) IN
    IF dataStr = DoneLiteral THEN Chunk(<<>>, TRUE)
    ELSE LET data == JSONParse(dataStr) IN
      IF ~data.ok THEN Thrown ELSE Chunk(data.content, data.flag # "0")

ParseChunk(api, line) ==
  IF api = "ollama" THEN parseOllamaChunk(line) ELSE parseVLLMChunk(line)

----------------------------------------------------------------------------
\* The message pattern validator

Msg(r, c) == [role |-> r, content |-> c]

MergeSeparator == <<NL, NL>>

\* a skip test that does not trim: !message.content
IsEmptyContentUntrimmed(c) == c = <<>>

\* !message.content || !message.content.trim()
IsEmptyContent(c) == Trim(c) = <<>>

\* a merge that keeps only the retained entry's content
MergeContentKeepsFirst(previous, content) == previous

\* validatedMessages[last].content += '\n\n' + message.content
MergeContent(previous, content) == previous \o MergeSeparator \o content

\* a validator that never merges
SameRoleNever(lastRole, message) == FALSE

\* lastRole === message.role && message.role !== 'system'
SameRoleAsLast(lastRole, message) ==
  lastRole = message.role /\ message.role # "system"

RECURSIVE ValidateFrom(_, _, _)
ValidateFrom(messages, validatedMessages, lastRole) ==
  IF messages = <<>> THEN validatedMessages
  ELSE LET message == Head(messages)
           rest == Tail(messages)
           n == Len(validatedMessages)
       IN
    IF IsEmptyContent(message.content)
      THEN ValidateFrom(rest, validatedMessages, lastRole)
    ELSE IF message.role = "system"
      THEN ValidateFrom(rest, Append(validatedMessages, message), "system")
    ELSE IF SameRoleAsLast(lastRole, message)
      THEN IF n > 0 /\ validatedMessages[n].role = message.role
             THEN ValidateFrom(rest,
                    [validatedMessages EXCEPT
                       ![n].content = MergeContent(@, message.content)],
                    lastRole)
             ELSE ValidateFrom(rest, validatedMessages, lastRole)
    ELSE ValidateFrom(rest, Append(validatedMessages, message), message.role)

\* lastRole starts as null; the result is filtered on msg.content.trim()
validateMessagePattern(messages) ==
  SelectSeq(ValidateFrom(messages, <<>>, "null"), LAMBDA m : Trim(m.content) # <<>>)

----------------------------------------------------------------------------
\* The request

ApiTypes == {"ollama", "vllm", "other"}
Supported == {"ollama", "vllm"}

SystemPrompt == <<"S">>
LanguageReinforcement == <<NL, NL, "R">>
ApiKey == "key"
Model == "model"
NoRequest == [sent |-> FALSE]

\* [{role:'system', content: systemPrompt}, ...filteredHistory, {role:'user', ...}]
BuildMessages(message, history) ==
  <<Msg("system", SystemPrompt)>>
    \o SelectSeq(history, LAMBDA m : m.role # "system")
    \o <<Msg("user", message \o LanguageReinforcement)>>

\* { model, messages, stream: true, ...config.params }: a key of params
\* replaces the key of the same name
RequestBody(message, history, configParams) ==
  LET base == [model |-> Model,
               messages |-> validateMessagePattern(BuildMessages(message, history)),
               stream |-> TRUE]
      keys == DOMAIN base \cup DOMAIN configParams
  IN [k \in keys |-> IF k \in DOMAIN configParams THEN configParams[k] ELSE base[k]]

\* headers that carry the key to every endpoint
HeadersAlwaysAuthorized(api) ==
  [contentType |-> "application/json", authorization |-> <<"Bearer", ApiKey>>]

\* 'Content-Type', and 'Authorization': `Bearer ${config.apiKey}` in
\* sendVLLMMessage only
Headers(api) ==
  IF api = "vllm"
    THEN [contentType |-> "application/json", authorization |-> <<"Bearer", ApiKey>>]
    ELSE [contentType |-> "application/json"]

BuildRequest(api, message, history, configParams) ==
  [sent |-> TRUE, method |-> "POST", headers |-> Headers(api),
   body |-> RequestBody(message, history, configParams)]

----------------------------------------------------------------------------
\* Callbacks and errors

HSR == "handleStreamResponse"
Sender(api) == IF api = "ollama" THEN "sendOllamaMessage" ELSE "sendVLLMMessage"

Call(cb, arg, by) == [cb |-> cb, arg |-> arg, by |-> by]

TransportError == [kind |-> "transport"]
HttpError(s) == [kind |-> "http", status |-> s]
ReadError == [kind |-> "read"]
CallbackError(cb) == [kind |-> "callback", cb |-> cb]
UnsupportedError(t) == [kind |-> "unsupported", apiType |-> t]

Pending == [state |-> "pending"]
NoTest == [at |-> "none"]
Resolved == [state |-> "resolved"]
Rejected(e) == [state |-> "rejected", error |-> e]

\* a check of the status that lets every response through
HttpOkAlways(s) == TRUE

\* response.ok
HttpOk(s) == 200 <= s /\ s <= 299

Statuses == {200, 404, 500}
NoResponse == [arrived |-> FALSE]
Response(s) == [arrived |-> TRUE, status |-> s]

\* a catch block that only rethrows
StreamCatchSilent(cs, error) == cs

\* catch of handleStreamResponse: logError; if (onError) onError(error); throw error
StreamCatch(cs, error) == Append(cs, Call("onError", error, HSR))

\* a release at the end of the try block: skipped when the block throws
ReleaseUnlessThrown(n, thrown) == IF thrown THEN n ELSE n + 1

\* finally { reader.releaseLock() }: runs whether or not the block throws
ReleaseLock(n, thrown) == n + 1

\* catch of sendOllamaMessage / sendVLLMMessage: the same three steps
SenderCatch(cs, error, api) == Append(cs, Call("onError", error, Sender(api)))

----------------------------------------------------------------------------
\* handleStreamResponse: the loop over the lines of one read

\* an accumulator that is assigned, not appended to
DeliverOverwrite(st, content) ==
  [st EXCEPT !.full = content,
             !.calls = Append(@, Call("onChunk", content, HSR))]

\* onChunk given the accumulated text
DeliverAccumulated(st, content) ==
  [st EXCEPT !.full = @ \o content,
             !.calls = Append(@, Call("onChunk", st.full \o content, HSR))]

\* onChunk called before the delta is accumulated: a throw loses the delta
DeliverBeforeAccumulating(st, content) ==
  [st EXCEPT !.full = IF "onChunk" \in cbThrows THEN @ ELSE @ \o content,
             !.calls = Append(@, Call("onChunk", content, HSR))]

\* fullResponse += chunk.content; if (onChunk) onChunk(chunk.content)
Deliver(st, content) ==
  [st EXCEPT !.full = @ \o content,
             !.calls = Append(@, Call("onChunk", content, HSR))]

\* Utils.logError('LLMManager.handleStreamResponse.parse', parseError, { line })
Logged(st, line) == [st EXCEPT !.errors = Append(@, line)]

RECURSIVE ForLines(_, _, _)

\* a catch block that leaves the loop
AfterParseErrorBreak(rest, api, st) == st

\* catch (parseError) { logError; continue }
AfterParseError(rest, api, st) == ForLines(rest, api, st)

\* a completion signal that is ignored by the loop
AfterDoneContinue(rest, api, st) == ForLines(rest, api, st)

\* if (chunk && chunk.done) break: the rest of this read's lines is left
AfterDone(rest, api, st) == st

\* for (const line of lines): st is [full, calls, parsed, errors].  An
\* exception of onChunk is thrown inside the same try block as the parser's.
ForLines(lines, api, st) ==
  IF lines = <<>> THEN st
  ELSE LET line == Head(lines)
           rest == Tail(lines)
       IN
    IF IsBlank(line) THEN ForLines(rest, api, st)
    ELSE LET chunk == ParseChunk(api, line)
             st1 == [st EXCEPT !.parsed = Append(@, line)]
             hasContent == chunk.kind = "chunk" /\ chunk.content # <<>>
             st2 == IF hasContent THEN Deliver(st1, chunk.content) ELSE st1
         IN
      IF chunk.kind = "throw" THEN AfterParseError(rest, api, Logged(st1, line))
      ELSE IF hasContent /\ "onChunk" \in cbThrows
        THEN AfterParseError(rest, api, Logged(st2, line))
      ELSE IF chunk.kind = "chunk" /\ chunk.done THEN AfterDone(rest, api, st2)
      ELSE ForLines(rest, api, st2)

----------------------------------------------------------------------------
\* Inputs

\* the lines a backend may transmit
OllamaLines ==
  { <<"{", E_ACUTE, "0", "}">>,    \* content, done: false
    <<"{", "b", "1", "}">>,        \* content, done: true
    <<"{", "a">>,                  \* malformed
    <<SP>> }                       \* blank line

VLLMLines ==
  { <<"d", ":", "{", E_ACUTE, "0", "}">>,   \* content, finish_reason: null
    <<"d", ":", "{", "b", "1", "}">>,       \* content, finish_reason: "stop"
    <<"d", ":", "{", "a", "}">>,            \* content, no finish_reason
    <<"d", ":", "[", "]">>,                 \* data: [DONE]
    <<"d", ":", "{", "a">> }                \* malformed after the prefix

LinesOf(api) == IF api = "ollama" THEN OllamaLines ELSE VLLMLines

\* the next lines of a body that has n lines already
MoreLines(api, n) ==
  UNION { [1..m -> LinesOf(api)] : m \in 0..(MaxFrames - n) }

\* the text of lines: each followed by a newline, the last one only if term
RECURSIVE BodyText(_, _)
BodyText(fs, term) ==
  IF fs = <<>> THEN <<>>
  ELSE IF Len(fs) = 1 THEN Head(fs) \o (IF term THEN <<NL>> ELSE <<>>)
  ELSE Head(fs) \o <<NL>> \o BodyText(Tail(fs), term)

\* the callers' callbacks: none throws, or onError rethrows its argument
\* (as in content.js and testConnection) and onChunk or onComplete throws
CallbackProfiles ==
  { {}, {"onChunk", "onError"}, {"onComplete", "onError"} }

Histories ==
  { <<Msg("user", <<"x">>), Msg("user", <<"y">>), Msg("assistant", <<"z">>)>> }

NewMessages == { <<"q">> }

NoParams == [k \in {} |-> TRUE]

Args(m, h) == [message |-> m, conversationHistory |-> h]
NoArgs == Args(<<>>, <<>>)

Config(t, ps) == [apiType |-> t, params |-> ps]

\* MODEL_CONFIG of config.js: the parameters of the vllm model and of the
\* ollama models
VLLMParams == [temperature |-> "0.7", max_tokens |-> "8192", stream |-> TRUE]
OllamaParams == [stream |-> TRUE]

ShippedConfigs == { Config("vllm", VLLMParams), Config("ollama", OllamaParams) }

----------------------------------------------------------------------------
\* ConversationManager.  saveConversationHistory, called at the end of every
\* operation that changes the list, hands the list to chrome.storage.local.set.
\* The store serialises the value when set is called and settles the calls in
\* the order they were issued.

MAX_HISTORY_TURNS == 5

\* timestamp: the time of creation, which orders messages as their ids do
MessageObj(id, message, isUser, selection) ==
  [id |-> id, content |-> message, isUser |-> isUser, timestamp |-> id,
   selection |-> selection]

\* Array.prototype.slice(-n)
SliceLast(s, n) == IF Len(s) > n THEN SubSeq(s, Len(s) - n + 1, Len(s)) ELSE s

\* if (length > MAX_HISTORY_TURNS * 2) slice(-MAX_HISTORY_TURNS * 2)
TrimHistory(history) ==
  IF Len(history) > MAX_HISTORY_TURNS * 2
    THEN SliceLast(history, MAX_HISTORY_TURNS * 2) ELSE history

\* addMessage(message, isUser, selection): the list afterwards
addMessage(history, id, message, isUser, selection) ==
  IF Trim(message) = <<>> THEN history
  ELSE TrimHistory(Append(history, MessageObj(id, message, isUser, selection)))

\* Utils.generateId is called only for a message that is added
IdAfter(id, message) == IF Trim(message) = <<>> THEN id ELSE id + 1

\* the constructors of ConversationManager, LLMChatApp and UIManager
Handlers == {"handleSendMessage", "sendMessage", "sendMessageRaw"}
AllHandlers == Handlers \cup {"handleSelectionAction"}
Idle == [at |-> "idle"]
NoCall == [by |-> "none"]
NoOp == [op |-> "none"]

\* a save that issues no write
saveConversationHistoryWithoutWrite(queue, history) == queue

\* saveConversationHistory(): ChromeUtils.setLocalStorageItem(key, list) is
\* called before the first await, so the list as it stands is what is written
saveConversationHistory(queue, history) == Append(queue, history)

Constructed ==
  /\ conversationHistory = <<>>
  /\ nextId = 1
  /\ stored = <<>>
  /\ pendingWrites = <<>>
  /\ lastWriteFailed = FALSE
  /\ writes = 0
  /\ lastOp = NoOp
  /\ isSendingMessage = FALSE
  /\ sendButtonEnabled = TRUE
  /\ tasks = [h \in AllHandlers |-> Idle]
  /\ admitted = 0
  /\ rejected = 0
  /\ lastRequest = NoCall

----------------------------------------------------------------------------
\* The background script: the stored context action

\* A selection text is the ordinal of the click that carried it, so the texts
\* of two clicks differ; 0 is the empty string.
NoSelection == 0

\* the ids given to chrome.contextMenus.create
MenuItems == {"llm-extension", "ask-about-selection", "open-in-side-panel",
              "summarize-in-side-panel"}

\* onClicked: the contextAction the case of a menu item stores; "" for the
\* parent item, whose case stores nothing
ContextActionOf(item) ==
  CASE item \in {"ask-about-selection", "open-in-side-panel"} -> "selection"
    [] item = "summarize-in-side-panel" -> "summarize"
    [] OTHER -> ""

\* The keys of chrome.storage.local the handlers use.  A key that is absent
\* holds the falsy value of its type ("", NoSelection, FALSE): the handlers
\* only test the values for truthiness, which reads undefined the same way.
ContextKeys == {"contextAction", "contextSelection", "actionProcessed"}

NoContext == [contextAction |-> "", contextSelection |-> NoSelection,
              actionProcessed |-> FALSE]

\* chrome.storage.local.set(items): the keys of items are overwritten
StorageSet(store, items) ==
  [k \in ContextKeys |-> IF k \in DOMAIN items THEN items[k] ELSE store[k]]

\* chrome.storage.local.remove(keys)
StorageRemove(store, keys) ==
  [k \in ContextKeys |-> IF k \in keys THEN NoContext[k] ELSE store[k]]

\* the calls of chrome.storage.local
GetCall(i) == [op |-> "get", check |-> i]
SetCall(items) == [op |-> "set", items |-> items]
RemoveCall == [op |-> "remove"]

\* the responses of handleCheckContextAction
HasAction(result, current) ==
  [hasAction |-> TRUE, action |-> result.contextAction,
   selection |-> IF result.contextSelection # NoSelection
                   THEN result.contextSelection ELSE current]

NoAction == [hasAction |-> FALSE, action |-> "", selection |-> NoSelection]

\* handleCheckContextAction: the test that guards the report
Unprocessed(result) == result.contextAction # "" /\ ~result.actionProcessed

\* the script as loaded: let currentSelection = '', nothing stored
BackgroundLoaded ==
  /\ currentSelection = NoSelection
  /\ contextStore = NoContext
  /\ storageCalls = <<>>
  /\ timers = 0
  /\ checks = <<>>
  /\ clicks = 0

----------------------------------------------------------------------------
\* The request: sendMessage to the end of handleStreamResponse

Init ==
  /\ pc = "idle"
  /\ apiType = "ollama"
  /\ params = NoParams
  /\ args = NoArgs
  /\ cbThrows = {}
  /\ request = NoRequest
  /\ fetchCount = 0
  /\ response = NoResponse
  /\ frames = <<>>
  /\ sealed = FALSE
  /\ wire = <<>>
  /\ pending = <<>>
  /\ buffer = <<>>
  /\ fullResponse = <<>>
  /\ calls = <<>>
  /\ yielded = <<>>
  /\ parsed = <<>>
  /\ parseErrors = <<>>
  /\ reader = "none"
  /\ releases = 0
  /\ readEnd = "none"
  /\ outcome = Pending
  /\ test = NoTest
  /\ vpc = "off"
  /\ vIn = <<>>
  /\ vOut = <<>>
  /\ Constructed
  /\ BackgroundLoaded

\* sendMessage with a supported apiType, to the fetch call of
\* sendOllamaMessage / sendVLLMMessage, for a configuration and arguments
\* taken from the given sets
SendWith(configs, profiles, histories) ==
  /\ pc = "idle"
  /\ \E c \in configs, th \in profiles, h \in histories, m \in NewMessages :
       /\ c.apiType \in Supported
       /\ apiType' = c.apiType
       /\ params' = c.params
       /\ args' = Args(m, h)
       /\ cbThrows' = th
       /\ request' = BuildRequest(c.apiType, m, h, c.params)
  /\ fetchCount' = fetchCount + 1
  /\ pc' = "fetching"
  /\ UNCHANGED <<response, calls, reader, releases, outcome>>
  /\ UNCHANGED streamVars
  /\ UNCHANGED validatorVars
  /\ UNCHANGED <<backgroundVars, conversationVars, storeVars, lastOp, appVars>>

\* sendMessage under the configurations of config.js
SendMessage ==
  /\ SendWith(ShippedConfigs, CallbackProfiles, Histories)
  /\ UNCHANGED test

\* a dispatch that sends an unknown apiType to the vllm sender
SendUnsupportedFallsThrough ==
  /\ pc = "idle"
  /\ \E t \in ApiTypes \ Supported, th \in CallbackProfiles,
        h \in Histories, m \in NewMessages :
       /\ apiType' = t
       /\ cbThrows' = th
       /\ args' = Args(m, h)
       /\ request' = BuildRequest("vllm", m, h, NoParams)
  /\ fetchCount' = fetchCount + 1
  /\ pc' = "fetching"
  /\ UNCHANGED <<params, response, calls, reader, releases, outcome>>
  /\ UNCHANGED streamVars
  /\ UNCHANGED validatorVars
  /\ UNCHANGED <<backgroundVars, conversationVars, storeVars, lastOp, appVars, test>>

\* sendMessage with any other apiType: throw new Error('Unsupported API type')
SendUnsupported ==
  /\ pc = "idle"
  /\ \E t \in ApiTypes \ Supported, th \in CallbackProfiles :
       /\ apiType' = t
       /\ cbThrows' = th
       /\ outcome' = Rejected(UnsupportedError(t))
  /\ pc' = "done"
  /\ UNCHANGED <<request, fetchCount, response, calls, reader, releases>>
  /\ UNCHANGED streamVars
  /\ UNCHANGED validatorVars
  /\ UNCHANGED <<backgroundVars, conversationVars, storeVars, lastOp, appVars, test>>
  /\ UNCHANGED inputVars

\* a sender that issues the request again after a network failure
FetchFailsAndRetries ==
  /\ pc = "fetching"
  /\ fetchCount < 2
  /\ fetchCount' = fetchCount + 1
  /\ UNCHANGED <<pc, apiType, cbThrows, request, response, calls, reader, releases,
                 outcome>>
  /\ UNCHANGED streamVars
  /\ UNCHANGED validatorVars
  /\ UNCHANGED <<backgroundVars, conversationVars, storeVars, lastOp, appVars, test>>
  /\ UNCHANGED inputVars

\* fetch rejects (network failure): the catch block of the sender
FetchFails ==
  /\ pc = "fetching"
  /\ calls' = SenderCatch(calls, TransportError, apiType)
  /\ outcome' = Rejected(TransportError)
  /\ pc' = "done"
  /\ UNCHANGED <<apiType, cbThrows, request, fetchCount, response, reader, releases>>
  /\ UNCHANGED streamVars
  /\ UNCHANGED validatorVars
  /\ UNCHANGED <<backgroundVars, conversationVars, storeVars, lastOp, appVars, test>>
  /\ UNCHANGED inputVars

\* fetch resolves with a status that is not ok: throw, caught by the sender
FetchHttpError ==
  /\ pc = "fetching"
  /\ \E s \in Statuses :
       /\ ~HttpOk(s)
       /\ response' = Response(s)
       /\ calls' = SenderCatch(calls, HttpError(s), apiType)
       /\ outcome' = Rejected(HttpError(s))
  /\ pc' = "done"
  /\ UNCHANGED <<apiType, cbThrows, request, fetchCount, reader, releases>>
  /\ UNCHANGED streamVars
  /\ UNCHANGED validatorVars
  /\ UNCHANGED <<backgroundVars, conversationVars, storeVars, lastOp, appVars, test>>
  /\ UNCHANGED inputVars

\* fetch resolves with an ok status: handleStreamResponse takes the reader
FetchOk ==
  /\ pc = "fetching"
  /\ \E s \in Statuses :
       /\ HttpOk(s)
       /\ response' = Response(s)
  /\ reader' = "locked"
  /\ pc' = "reading"
  /\ UNCHANGED <<apiType, cbThrows, request, fetchCount, calls, releases, outcome>>
  /\ UNCHANGED streamVars
  /\ UNCHANGED validatorVars
  /\ UNCHANGED <<backgroundVars, conversationVars, storeVars, lastOp, appVars, test>>
  /\ UNCHANGED inputVars

\* reader.read() delivers a value.  The backend has transmitted the bytes of
\* wire and may have transmitted more lines ls since the last read (the last
\* of them without its newline if ~term); the value is the first k bytes of
\* all that, and reaches into the last line transmitted.
ReadChunk ==
  /\ pc = "reading"
  /\ readEnd = "none"
  /\ \E ls \in MoreLines(apiType, Len(frames)), term \in BOOLEAN :
       /\ sealed => ls = <<>>
       /\ ls = <<>> => term
       /\ \E avail \in {wire \o Encode(BodyText(ls, term))} :
          \E lastLen \in {IF ls = <<>> THEN Len(wire)
                          ELSE Len(Encode(BodyText(<<ls[Len(ls)]>>, term)))} :
          \E k \in (Len(avail) - lastLen + 1)..Len(avail) :
          \E decoded \in {Decode(pending, SubSeq(avail, 1, k))} :
          \E segments \in {SplitLines(buffer \o decoded.text)} :
          \E st \in {ForLines(CompleteLines(segments), apiType,
                        [full |-> fullResponse, calls |-> calls, parsed |-> parsed,
                         errors |-> parseErrors])} :
            /\ frames' = frames \o ls
            /\ sealed' = (sealed \/ ~term)
            /\ wire' = SubSeq(avail, k + 1, Len(avail))
            /\ pending' = decoded.held
            /\ buffer' = NextBuffer(segments)
            /\ yielded' = yielded \o CompleteLines(segments)
            /\ fullResponse' = st.full
            /\ calls' = st.calls
            /\ parsed' = st.parsed
            /\ parseErrors' = st.errors
  /\ UNCHANGED <<pc, apiType, cbThrows, request, fetchCount, response, reader,
                 releases, outcome, readEnd>>
  /\ UNCHANGED validatorVars
  /\ UNCHANGED <<backgroundVars, conversationVars, storeVars, lastOp, appVars, test>>
  /\ UNCHANGED inputVars

\* a handler that parses the text left in the buffer when the reader
\* reports done
ReadDoneFlushesBuffer ==
  /\ pc = "reading"
  /\ readEnd = "none"
  /\ wire = <<>>
  /\ \E st \in {ForLines(<<buffer>>, apiType,
                    [full |-> fullResponse, calls |-> calls, parsed |-> parsed,
                     errors |-> parseErrors])} :
       /\ fullResponse' = st.full
       /\ parsed' = st.parsed
       /\ parseErrors' = st.errors
       /\ calls' = Append(st.calls, Call("onComplete", st.full, HSR))
  /\ outcome' = Resolved
  /\ readEnd' = "exhausted"
  /\ releases' = releases + 1
  /\ reader' = "released"
  /\ pc' = "done"
  /\ UNCHANGED <<apiType, cbThrows, request, fetchCount, response>>
  /\ UNCHANGED <<frames, sealed, wire, pending, buffer, yielded>>
  /\ UNCHANGED validatorVars
  /\ UNCHANGED <<backgroundVars, conversationVars, storeVars, lastOp, appVars, test>>
  /\ UNCHANGED inputVars

\* reader.read() reports done: onComplete(fullResponse), finally releaseLock.
\* An exception of onComplete is caught by the catch block of
\* handleStreamResponse and, rethrown, by the catch block of the sender.
ReadDone ==
  /\ pc = "reading"
  /\ readEnd = "none"
  /\ wire = <<>>
  /\ LET completed == Append(calls, Call("onComplete", fullResponse, HSR))
         error == CallbackError("onComplete")
     IN IF "onComplete" \in cbThrows
          THEN /\ calls' = SenderCatch(StreamCatch(completed, error), error, apiType)
               /\ outcome' = Rejected(error)
          ELSE /\ calls' = completed
               /\ outcome' = Resolved
  /\ readEnd' = "exhausted"
  /\ releases' = ReleaseLock(releases, "onComplete" \in cbThrows)
  /\ reader' = IF releases' > releases THEN "released" ELSE reader
  /\ pc' = "done"
  /\ UNCHANGED <<apiType, cbThrows, request, fetchCount, response>>
  /\ UNCHANGED <<frames, sealed, wire, pending, buffer, fullResponse, yielded,
                 parsed, parseErrors>>
  /\ UNCHANGED validatorVars
  /\ UNCHANGED <<backgroundVars, conversationVars, storeVars, lastOp, appVars, test>>
  /\ UNCHANGED inputVars

\* a try block inside the loop: the error is reported and reading goes on
ReadThrowsContinue ==
  /\ pc = "reading"
  /\ readEnd = "none"
  /\ \A i \in DOMAIN calls : calls[i].cb # "onError"
  /\ calls' = StreamCatch(calls, ReadError)
  /\ UNCHANGED <<pc, apiType, cbThrows, request, fetchCount, response, reader,
                 releases, outcome>>
  /\ UNCHANGED streamVars
  /\ UNCHANGED validatorVars
  /\ UNCHANGED <<backgroundVars, conversationVars, storeVars, lastOp, appVars, test>>
  /\ UNCHANGED inputVars

\* reader.read() throws: catch of handleStreamResponse, finally releaseLock,
\* the rethrown error reaches the catch block of the sender
ReadThrows ==
  /\ pc = "reading"
  /\ readEnd = "none"
  /\ calls' = SenderCatch(StreamCatch(calls, ReadError), ReadError, apiType)
  /\ outcome' = Rejected(ReadError)
  /\ readEnd' = "error"
  /\ releases' = ReleaseLock(releases, TRUE)
  /\ reader' = IF releases' > releases THEN "released" ELSE reader
  /\ pc' = "done"
  /\ UNCHANGED <<apiType, cbThrows, request, fetchCount, response>>
  /\ UNCHANGED <<frames, sealed, wire, pending, buffer, fullResponse, yielded,
                 parsed, parseErrors>>
  /\ UNCHANGED validatorVars
  /\ UNCHANGED <<backgroundVars, conversationVars, storeVars, lastOp, appVars, test>>
  /\ UNCHANGED inputVars

\* the callbacks testConnection passes: only its onError throws
TestCallbacks == {"onError"}

\* responseReceived: set by onChunk when chunk.trim() is not empty and by
\* onComplete when fullResponse.trim() is not empty
ResponseReceived(cs) ==
  \E i \in DOMAIN cs :
    cs[i].cb \in {"onChunk", "onComplete"} /\ Trim(cs[i].arg) # <<>>

\* a test that reports what was received whether or not the call failed
testConnectionIgnoringFailure(settled, cs) == ResponseReceived(cs)

\* testConnection: return responseReceived after await this.sendMessage(...),
\* return false from the catch block
testConnection(settled, cs) ==
  IF settled = Resolved THEN ResponseReceived(cs) ELSE FALSE

\* testConnection on a manager that is not initialized: initialize() throws
\* 'Failed to initialize LLM manager', outside the try block
TestInitializeFails ==
  /\ pc = "idle"
  /\ test = NoTest
  /\ test' = [at |-> "rejected"]
  /\ UNCHANGED <<pc, apiType, cbThrows, request, fetchCount, response, calls,
                 reader, releases, outcome>>
  /\ UNCHANGED streamVars
  /\ UNCHANGED validatorVars
  /\ UNCHANGED <<backgroundVars, conversationVars, storeVars, lastOp, appVars>>
  /\ UNCHANGED inputVars

\* testConnection, to the fetch call of the sender
TestConnection ==
  /\ test = NoTest
  /\ test' = [at |-> "sending"]
  /\ SendWith(ShippedConfigs, {TestCallbacks}, {<<>>})

\* testConnection under an apiType that sendMessage does not support
TestConnectionUnsupported ==
  /\ pc = "idle"
  /\ test = NoTest
  /\ test' = [at |-> "sending"]
  /\ \E t \in ApiTypes \ Supported :
       /\ apiType' = t
       /\ outcome' = Rejected(UnsupportedError(t))
  /\ cbThrows' = TestCallbacks
  /\ pc' = "done"
  /\ UNCHANGED <<request, fetchCount, response, calls, reader, releases>>
  /\ UNCHANGED streamVars
  /\ UNCHANGED validatorVars
  /\ UNCHANGED <<backgroundVars, conversationVars, storeVars, lastOp, appVars>>
  /\ UNCHANGED inputVars

\* the promise of sendMessage has settled: testConnection returns
TestConnectionReturns ==
  /\ test = [at |-> "sending"]
  /\ pc = "done"
  /\ test' = [at |-> "returned", value |-> testConnection(outcome, calls)]
  /\ UNCHANGED <<pc, apiType, cbThrows, request, fetchCount, response, calls,
                 reader, releases, outcome>>
  /\ UNCHANGED streamVars
  /\ UNCHANGED validatorVars
  /\ UNCHANGED <<backgroundVars, conversationVars, storeVars, lastOp, appVars>>
  /\ UNCHANGED inputVars

Next ==
  \/ SendMessage
  \/ SendUnsupported
  \/ FetchFails
  \/ FetchHttpError
  \/ FetchOk
  \/ ReadChunk
  \/ ReadDone
  \/ ReadThrows

Spec == Init /\ [][Next]_vars

\* the request made by testConnection
NextT ==
  \/ TestInitializeFails
  \/ TestConnection
  \/ TestConnectionUnsupported
  \/ TestConnectionReturns
  \/ FetchFails
  \/ FetchHttpError
  \/ FetchOk
  \/ ReadChunk
  \/ ReadDone
  \/ ReadThrows

SpecT == Init /\ [][NextT]_vars

----------------------------------------------------------------------------
\* The request built by sendMessage for any configuration and history

\* config.params: none (an ollama model without an entry), the shipped ones,
\* and parameter sets that name a key of the request body
ParamSets ==
  { NoParams, OllamaParams, VLLMParams,
    [stream |-> FALSE],
    [temperature |-> "0.7", model |-> "other", messages |-> <<>>] }

AnyConfigs == { Config(t, ps) : t \in Supported, ps \in ParamSets }

HistoryEntries ==
  { Msg("user", <<"x">>), Msg("assistant", <<"z">>), Msg("system", <<"s">>),
    Msg("user", <<>>) }

AnyHistories == UNION { [1..n -> HistoryEntries] : n \in 0..MaxHistory }

SendAnyConfig ==
  /\ SendWith(AnyConfigs, {{}}, AnyHistories)
  /\ UNCHANGED test

NextR ==
  \/ SendAnyConfig
  \/ SendUnsupported

SpecR == Init /\ [][NextR]_vars

----------------------------------------------------------------------------
\* validateMessagePattern applied to a list of entries

Roles == {"system", "user", "assistant"}
Contents == { <<>>, <<SP>>, <<"x">>, <<"y">> }
Entries == { Msg(r, c) : r \in Roles, c \in Contents }

ValidatorInputs ==
  UNION { [1..n -> Entries] : n \in 0..MaxMessages }

InitV ==
  /\ pc = "idle"
  /\ apiType = "ollama"
  /\ params = NoParams
  /\ args = NoArgs
  /\ cbThrows = {}
  /\ request = NoRequest
  /\ fetchCount = 0
  /\ response = NoResponse
  /\ frames = <<>>
  /\ sealed = FALSE
  /\ wire = <<>>
  /\ pending = <<>>
  /\ buffer = <<>>
  /\ fullResponse = <<>>
  /\ calls = <<>>
  /\ yielded = <<>>
  /\ parsed = <<>>
  /\ parseErrors = <<>>
  /\ reader = "none"
  /\ releases = 0
  /\ readEnd = "none"
  /\ outcome = Pending
  /\ test = NoTest
  /\ vpc = "input"
  /\ vIn \in ValidatorInputs
  /\ vOut = <<>>
  /\ Constructed
  /\ BackgroundLoaded

Validate ==
  /\ vpc = "input"
  /\ vOut' = validateMessagePattern(vIn)
  /\ vpc' = "validated"
  /\ UNCHANGED <<pc, apiType, cbThrows, request, fetchCount, response, calls,
                 reader, releases, outcome, vIn>>
  /\ UNCHANGED streamVars
  /\ UNCHANGED inputVars
  /\ UNCHANGED <<backgroundVars, conversationVars, storeVars, lastOp, appVars, test>>

NextV == Validate

SpecV == InitV /\ [][NextV]_vars

----------------------------------------------------------------------------
\* ConversationManager taken alone, with the store it saves the list to

\* most addMessage calls in one run
MaxAdds == 3

\* most entries in a list given to importHistory
MaxImport == 11

\* an exported message; ids of imported messages are below 0
Imported(i) == MessageObj(0 - i, <<"x">>, i % 2 = 1, <<>>)

\* an entry that fails the validation of importHistory (no content)
InvalidEntry == MessageObj(0, <<>>, TRUE, <<>>)

ImportArray(items) == [kind |-> "array", items |-> items]

\* data given to importHistory: arrays of exported messages, alone or after
\* an invalid entry, a JSON value that is not an array, and malformed JSON
ImportData ==
  { ImportArray([i \in 1..n |-> Imported(i)]) : n \in 0..MaxImport }
    \cup { ImportArray(<<InvalidEntry>> \o [i \in 1..n |-> Imported(i)]) :
              n \in 0..(MaxImport - 1) }
    \cup { [kind |-> "notArray"], [kind |-> "malformed"] }

\* msg && typeof msg === 'object' && msg.content && typeof msg.isUser === 'boolean'
IsValidMessage(msg) == msg.content # <<>> /\ msg.isUser \in BOOLEAN

\* most chrome.storage.local.set calls in flight at once
MaxPending == 2

\* most chrome.storage.local.set calls in one run
MaxWrites == 3

\* the ids removeMessage and updateMessage are called with: the first and
\* the last message of the list, and an id no message has
UnknownId == 0
TargetIds(history) ==
  { history[i].id : i \in { j \in DOMAIN history : j = 1 \/ j = Len(history) } }
    \cup { UnknownId }

\* removeMessage: conversationHistory.filter(msg => msg.id !== messageId)
removeMessage(history, messageId) ==
  SelectSeq(history, LAMBDA msg : msg.id # messageId)

\* findIndex(msg => msg.id === messageId): the first index, 0 for -1
FindIndex(history, messageId) ==
  IF \E i \in DOMAIN history : history[i].id = messageId
    THEN CHOOSE i \in DOMAIN history :
           /\ history[i].id = messageId
           /\ \A j \in 1..(i - 1) : history[j].id # messageId
    ELSE 0

\* an update that also restamps the message
UpdatedAndRestamped(msg, newContent) ==
  [ f \in DOMAIN msg \cup {"content", "updatedAt"} |->
      IF f = "content" THEN newContent
      ELSE IF f = "updatedAt" THEN "now"
      ELSE IF f = "timestamp" THEN msg[f] + 1
      ELSE msg[f] ]

\* updateMessage: the message found gets the new content and an updatedAt
Updated(msg, newContent) ==
  [ f \in DOMAIN msg \cup {"content", "updatedAt"} |->
      IF f = "content" THEN newContent
      ELSE IF f = "updatedAt" THEN "now"
      ELSE msg[f] ]

updateMessage(history, messageId, newContent) ==
  IF FindIndex(history, messageId) = 0 THEN history
  ELSE [history EXCEPT ![FindIndex(history, messageId)] =
          Updated(@, newContent)]

CanSave == Len(pendingWrites) < MaxPending /\ writes < MaxWrites

\* the number of set calls after an operation that issued one or none
WritesAfter == writes + (Len(pendingWrites') - Len(pendingWrites))

\* importHistory that assigns the decoded value before testing it
importHistoryAssignsFirst(history, data) ==
  IF data.kind = "array"
    THEN [history |-> SelectSeq(data.items, IsValidMessage), saved |-> TRUE,
          returned |-> TRUE]
    ELSE [history |-> IF data.kind = "notArray" THEN <<>> ELSE history,
          saved |-> FALSE, returned |-> FALSE]

\* importHistory(data): JSON.parse or the array test throws: the catch block
\* returns false; otherwise the valid entries replace the list, the list is
\* saved and true is returned
importHistory(history, data) ==
  IF data.kind = "array"
    THEN [history |-> SelectSeq(data.items, IsValidMessage), saved |-> TRUE,
          returned |-> TRUE]
    ELSE [history |-> history, saved |-> FALSE, returned |-> FALSE]

\* addMessage returns before the save when the message is blank
AddMessage ==
  /\ nextId <= MaxAdds
  /\ CanSave
  /\ \E message \in { <<SP>>, <<"x">> }, isUser \in BOOLEAN, selection \in { <<>> } :
       /\ conversationHistory' =
            addMessage(conversationHistory, nextId, message, isUser, selection)
       /\ nextId' = IdAfter(nextId, message)
       /\ pendingWrites' =
            IF Trim(message) = <<>> THEN pendingWrites
            ELSE saveConversationHistory(pendingWrites, conversationHistory')
  /\ writes' = WritesAfter
  /\ lastOp' = [op |-> "addMessage"]
  /\ UNCHANGED <<stored, lastWriteFailed, llmVars, backgroundVars, appVars>>

ClearHistory ==
  /\ CanSave
  /\ conversationHistory' = <<>>
  /\ pendingWrites' = saveConversationHistory(pendingWrites, conversationHistory')
  /\ writes' = WritesAfter
  /\ lastOp' = [op |-> "clearHistory"]
  /\ UNCHANGED <<nextId, stored, lastWriteFailed, llmVars, backgroundVars, appVars>>

ImportHistory ==
  /\ CanSave
  /\ \E data \in ImportData :
       LET result == importHistory(conversationHistory, data)
       IN /\ conversationHistory' = result.history
          /\ pendingWrites' =
               IF result.saved
                 THEN saveConversationHistory(pendingWrites, conversationHistory')
                 ELSE pendingWrites
          /\ lastOp' = [op |-> "importHistory", kind |-> data.kind,
                        returned |-> result.returned]
  /\ writes' = WritesAfter
  /\ UNCHANGED <<nextId, stored, lastWriteFailed, llmVars, backgroundVars, appVars>>

\* removeMessage(messageId): filter, then save
RemoveMessage ==
  /\ CanSave
  /\ \E messageId \in TargetIds(conversationHistory) :
       /\ conversationHistory' = removeMessage(conversationHistory, messageId)
       /\ lastOp' = [op |-> "removeMessage", id |-> messageId]
  /\ pendingWrites' = saveConversationHistory(pendingWrites, conversationHistory')
  /\ writes' = WritesAfter
  /\ UNCHANGED <<nextId, stored, lastWriteFailed, llmVars, backgroundVars, appVars>>

\* updateMessage(messageId, newContent): saves only when the id was found
UpdateMessage ==
  /\ CanSave
  /\ \E messageId \in TargetIds(conversationHistory), newContent \in { <<"y">> } :
       /\ conversationHistory' =
            updateMessage(conversationHistory, messageId, newContent)
       /\ pendingWrites' =
            IF FindIndex(conversationHistory, messageId) = 0 THEN pendingWrites
            ELSE saveConversationHistory(pendingWrites, conversationHistory')
       /\ lastOp' = [op |-> "updateMessage", id |-> messageId,
                     content |-> newContent]
  /\ writes' = WritesAfter
  /\ UNCHANGED <<nextId, stored, lastWriteFailed, llmVars, backgroundVars, appVars>>

\* chrome.storage.local.set calls back without lastError: the value is stored
WriteCompletes ==
  /\ pendingWrites # <<>>
  /\ stored' = Head(pendingWrites)
  /\ pendingWrites' = Tail(pendingWrites)
  /\ lastWriteFailed' = FALSE
  /\ UNCHANGED <<writes, lastOp, conversationVars, llmVars, backgroundVars, appVars>>

\* chrome.storage.local.set calls back with lastError: setLocalStorageItem
\* rejects, saveConversationHistory logs the error and returns
WriteFails ==
  /\ pendingWrites # <<>>
  /\ pendingWrites' = Tail(pendingWrites)
  /\ lastWriteFailed' = TRUE
  /\ UNCHANGED <<writes, lastOp, stored, conversationVars, llmVars, backgroundVars, appVars>>

NextC ==
  \/ AddMessage
  \/ ClearHistory
  \/ ImportHistory
  \/ RemoveMessage
  \/ UpdateMessage
  \/ WriteCompletes
  \/ WriteFails

SpecC == Init /\ [][NextC]_vars

----------------------------------------------------------------------------
\* LLMChatApp: handleSendMessage, sendMessage, sendMessageRaw,
\* handleSelectionAction and handleClearHistory invoked in any interleaving.
\* A handler runs without interruption up to its next await;
\* llmManager.sendMessage is seen through the callbacks it makes and the
\* settling of its promise, and the code that follows the settling (the
\* catch and finally blocks) runs in the same turn of the event loop.  The
\* store is taken to settle every write before the next step.

\* most invocations of the send handlers in one run
MaxSends == 2

\* most deltas one response is delivered in
MaxDeltas == 2

AppMessages == { <<SP>>, <<"q">> }
Selections == { <<>>, <<"s">> }
Prompts == { <<"p">> }
Delta == <<"a">>

\* '\n\n[Selected text context]:\n'
ContextLabel == <<NL, NL, "C", NL>>

\* Array.prototype.slice(0, -1)
AllButLast(s) == IF s = <<>> THEN s ELSE SubSeq(s, 1, Len(s) - 1)

\* getFormattedHistory, the map: role from isUser, content with the
\* selection appended under the label
Formatted(msg) ==
  Msg(IF msg.isUser THEN "user" ELSE "assistant",
      IF Trim(msg.selection) # <<>>
        THEN Trim(msg.content \o ContextLabel \o Trim(msg.selection))
        ELSE msg.content)

\* getFormattedHistory, the loop: blank entries skipped, an entry of the
\* role pushed last merged into the entry pushed last
RECURSIVE FormatFrom(_, _, _)
FormatFrom(messages, validatedMessages, lastRole) ==
  IF messages = <<>> THEN validatedMessages
  ELSE LET message == Head(messages)
           n == Len(validatedMessages)
       IN IF Trim(message.content) = <<>>
            THEN FormatFrom(Tail(messages), validatedMessages, lastRole)
          ELSE IF lastRole = message.role
            THEN FormatFrom(Tail(messages),
                   IF n > 0
                     THEN [validatedMessages EXCEPT ![n].content =
                             @ \o MergeSeparator \o message.content]
                     ELSE validatedMessages,
                   lastRole)
          ELSE FormatFrom(Tail(messages), Append(validatedMessages, message),
                          message.role)

\* a list returned as it is
KeepLeading(validatedMessages) == validatedMessages

\* if (length > 0 && validatedMessages[0].role !== 'user') shift()
DropLeadingNonUser(validatedMessages) ==
  IF validatedMessages # <<>> /\ validatedMessages[1].role # "user"
    THEN Tail(validatedMessages) ELSE validatedMessages

getFormattedHistory(history) ==
  DropLeadingNonUser(
    FormatFrom([i \in DOMAIN history |-> Formatted(history[i])], <<>>, "null"))

\* sendToLLM(message, selection) up to the call of llmManager.sendMessage:
\* the message and the history it passes, and the messages the sender puts
\* in the request body
sendToLLM(h, message, selection, history) ==
  LET messageToSend == IF Trim(selection) # <<>>
                         THEN message \o ContextLabel \o selection
                         ELSE message
      passed == AllButLast(getFormattedHistory(history))
  IN [by |-> h, message |-> messageToSend, conversation |-> history,
      history |-> passed,
      messages |-> validateMessagePattern(BuildMessages(messageToSend, passed))]

\* what addMessage is given for the user's turn: sendMessageRaw stores the
\* display message, the other two the message itself
UserTurn(h, message) == IF h = "sendMessageRaw" THEN <<"d">> ELSE message

\* the selection sendToLLM is given: sendMessageRaw passes ''
SelectionSent(h, selection) == IF h = "sendMessageRaw" THEN <<>> ELSE selection

Waiting(message, userId) ==
  [at |-> "llm", message |-> message, received |-> <<>>, userId |-> userId]

Finished(result, received) ==
  [at |-> "idle", result |-> result, received |-> received]

\* a guard that tests the message only
AdmitsAnyNonBlank(sending, message) == Trim(message) # <<>>

\* if (this.isSendingMessage || !message.trim()) return
Admits(sending, message) == ~sending /\ Trim(message) # <<>>

\* a return that passes through the finally block of the handler
AfterRejectionThroughFinally(sending, enabled) ==
  [isSendingMessage |-> FALSE, sendButtonEnabled |-> TRUE]

\* the return of the guard, before the try block
AfterRejection(sending, enabled) ==
  [isSendingMessage |-> sending, sendButtonEnabled |-> enabled]

\* a reset made at the end of the try block, skipped when it throws
AfterSendUnlessThrown(h, thrown, sending, enabled) ==
  IF h \in Handlers
    THEN [isSendingMessage |-> thrown, sendButtonEnabled |-> ~thrown]
    ELSE [isSendingMessage |-> sending, sendButtonEnabled |-> enabled]

\* finally { this.isSendingMessage = false; setSendButtonState(true); ... }
\* of the three guarded handlers; handleSelectionAction has no finally
AfterSend(h, thrown, sending, enabled) ==
  IF h \in Handlers
    THEN [isSendingMessage |-> FALSE, sendButtonEnabled |-> TRUE]
    ELSE [isSendingMessage |-> sending, sendButtonEnabled |-> enabled]

\* the list a write of the store leaves behind, none when nothing was added
StoredAfter(history) ==
  IF history = conversationHistory THEN stored ELSE history

\* a guarded handler is invoked and its guard lets it pass:
\* isSendingMessage = true, setSendButtonState(false) and the call of
\* selectionManager.getSelection()
Invoke ==
  /\ admitted + rejected < MaxSends
  /\ \E h \in Handlers, message \in AppMessages :
       /\ tasks[h].at = "idle"
       /\ Admits(isSendingMessage, message)
       /\ isSendingMessage' = TRUE
       /\ sendButtonEnabled' = FALSE
       /\ tasks' = [tasks EXCEPT ![h] = [at |-> "selection", message |-> message]]
       /\ admitted' = admitted + 1
  /\ UNCHANGED <<rejected, lastRequest, llmVars, backgroundVars, lastOp, conversationVars, storeVars>>

\* a guarded handler is invoked and its guard returns
Reject ==
  /\ admitted + rejected < MaxSends
  /\ \E h \in Handlers, message \in AppMessages :
       /\ ~Admits(isSendingMessage, message)
       /\ isSendingMessage' =
            AfterRejection(isSendingMessage, sendButtonEnabled).isSendingMessage
       /\ sendButtonEnabled' =
            AfterRejection(isSendingMessage, sendButtonEnabled).sendButtonEnabled
  /\ rejected' = rejected + 1
  /\ UNCHANGED <<tasks, admitted, lastRequest, llmVars, backgroundVars, lastOp, conversationVars,
                 storeVars>>

\* getSelection() resolves: conversationManager.addMessage(message, true,
\* selection), then sendToLLM up to the call of llmManager.sendMessage
SelectionResolves ==
  /\ \E h \in Handlers, selection \in Selections :
       /\ tasks[h].at = "selection"
       /\ conversationHistory' =
            addMessage(conversationHistory, nextId, UserTurn(h, tasks[h].message),
                       TRUE, selection)
       /\ nextId' = IdAfter(nextId, UserTurn(h, tasks[h].message))
       /\ lastRequest' = sendToLLM(h, tasks[h].message, SelectionSent(h, selection),
                                   conversationHistory')
       /\ tasks' = [tasks EXCEPT ![h] = Waiting(tasks[h].message, nextId)]
  /\ stored' = StoredAfter(conversationHistory')
  /\ UNCHANGED <<isSendingMessage, sendButtonEnabled, admitted, rejected,
                 llmVars, backgroundVars, lastOp, pendingWrites, lastWriteFailed, writes>>

\* getSelection() throws: the catch and finally blocks of the handler
SelectionFails ==
  /\ \E h \in Handlers :
       /\ tasks[h].at = "selection"
       /\ tasks' = [tasks EXCEPT ![h] = Finished("failed", <<>>)]
       /\ isSendingMessage' =
            AfterSend(h, TRUE, isSendingMessage, sendButtonEnabled).isSendingMessage
       /\ sendButtonEnabled' =
            AfterSend(h, TRUE, isSendingMessage, sendButtonEnabled).sendButtonEnabled
  /\ UNCHANGED <<admitted, rejected, lastRequest, llmVars, backgroundVars, lastOp, conversationVars,
                 storeVars>>

\* handleSelectionAction(prompt, selection): addMessage(prompt, true,
\* selection), then sendToLLM(prompt) up to the call of llmManager.sendMessage
HandleSelectionAction ==
  /\ admitted + rejected < MaxSends
  /\ tasks["handleSelectionAction"].at = "idle"
  /\ \E prompt \in Prompts, selection \in Selections \ { <<>> } :
       /\ conversationHistory' =
            addMessage(conversationHistory, nextId, prompt, TRUE, selection)
       /\ nextId' = IdAfter(nextId, prompt)
       /\ lastRequest' = sendToLLM("handleSelectionAction", prompt, <<>>,
                                   conversationHistory')
       /\ tasks' = [tasks EXCEPT !["handleSelectionAction"] = Waiting(prompt, nextId)]
  /\ admitted' = admitted + 1
  /\ stored' = StoredAfter(conversationHistory')
  /\ UNCHANGED <<isSendingMessage, sendButtonEnabled, rejected, llmVars, backgroundVars, lastOp,
                 pendingWrites, lastWriteFailed, writes>>

\* handleClearHistory: conversationManager.clearHistory()
HandleClearHistory ==
  /\ conversationHistory' = <<>>
  /\ stored' = <<>>
  /\ UNCHANGED <<nextId, appVars, llmVars, backgroundVars, lastOp, pendingWrites, lastWriteFailed, writes>>

\* onChunk of sendToLLM: assistantMessage += chunk
LLMChunk ==
  /\ \E h \in AllHandlers :
       /\ tasks[h].at = "llm"
       /\ Len(tasks[h].received) < MaxDeltas
       /\ tasks' = [tasks EXCEPT ![h].received = @ \o Delta]
  /\ UNCHANGED <<isSendingMessage, sendButtonEnabled, admitted, rejected,
                 lastRequest, llmVars, backgroundVars, lastOp, conversationVars, storeVars>>

\* a completion that shows the reply and does not add it to the conversation
LLMCompletesWithoutAdding ==
  /\ \E h \in AllHandlers :
       /\ tasks[h].at = "llm"
       /\ tasks' = [tasks EXCEPT ![h] =
                      Finished("completed", tasks[h].received)]
       /\ isSendingMessage' =
            AfterSend(h, FALSE, isSendingMessage, sendButtonEnabled).isSendingMessage
       /\ sendButtonEnabled' =
            AfterSend(h, FALSE, isSendingMessage, sendButtonEnabled).sendButtonEnabled
  /\ UNCHANGED <<admitted, rejected, lastRequest, llmVars, backgroundVars, lastOp, conversationVars,
                 storeVars>>

\* onComplete of sendToLLM: conversationManager.addMessage(fullResponse,
\* false); the promise of llmManager.sendMessage resolves; finally
LLMCompletes ==
  /\ \E h \in AllHandlers :
       /\ tasks[h].at = "llm"
       /\ conversationHistory' =
            addMessage(conversationHistory, nextId, tasks[h].received, FALSE, <<>>)
       /\ nextId' = IdAfter(nextId, tasks[h].received)
       /\ tasks' = [tasks EXCEPT ![h] =
                      Finished("completed", tasks[h].received)]
       /\ isSendingMessage' =
            AfterSend(h, FALSE, isSendingMessage, sendButtonEnabled).isSendingMessage
       /\ sendButtonEnabled' =
            AfterSend(h, FALSE, isSendingMessage, sendButtonEnabled).sendButtonEnabled
  /\ stored' = StoredAfter(conversationHistory')
  /\ UNCHANGED <<admitted, rejected, lastRequest, llmVars, backgroundVars, lastOp, pendingWrites,
                 lastWriteFailed, writes>>

\* a failure that keeps the text received so far as the reply
LLMFailsKeepingPartial ==
  /\ \E h \in AllHandlers :
       /\ tasks[h].at = "llm"
       /\ conversationHistory' =
            addMessage(conversationHistory, nextId, tasks[h].received, FALSE, <<>>)
       /\ nextId' = IdAfter(nextId, tasks[h].received)
       /\ tasks' = [tasks EXCEPT ![h] =
                      Finished("failed", tasks[h].received)]
       /\ isSendingMessage' =
            AfterSend(h, TRUE, isSendingMessage, sendButtonEnabled).isSendingMessage
       /\ sendButtonEnabled' =
            AfterSend(h, TRUE, isSendingMessage, sendButtonEnabled).sendButtonEnabled
  /\ stored' = StoredAfter(conversationHistory')
  /\ UNCHANGED <<admitted, rejected, lastRequest, llmVars, backgroundVars, lastOp, pendingWrites,
                 lastWriteFailed, writes>>

\* the promise of llmManager.sendMessage rejects (onError of sendToLLM
\* rethrows): catch of sendToLLM, catch and finally of the handler
LLMFails ==
  /\ \E h \in AllHandlers :
       /\ tasks[h].at = "llm"
       /\ tasks' = [tasks EXCEPT ![h] =
                      Finished("failed", tasks[h].received)]
       /\ isSendingMessage' =
            AfterSend(h, TRUE, isSendingMessage, sendButtonEnabled).isSendingMessage
       /\ sendButtonEnabled' =
            AfterSend(h, TRUE, isSendingMessage, sendButtonEnabled).sendButtonEnabled
  /\ UNCHANGED <<admitted, rejected, lastRequest, llmVars, backgroundVars, lastOp, conversationVars,
                 storeVars>>

NextApp ==
  \/ Invoke
  \/ Reject
  \/ SelectionResolves
  \/ SelectionFails
  \/ HandleSelectionAction
  \/ HandleClearHistory
  \/ LLMChunk
  \/ LLMCompletes
  \/ LLMFails

SpecApp == Init /\ [][NextApp]_vars

----------------------------------------------------------------------------
\* The background script: context-menu clicks and checkContextAction

pageVars == <<llmVars, conversationVars, storeVars, lastOp, appVars>>

\* contextMenus.onClicked: currentSelection is set and, for the three child
\* items, the action is stored with actionProcessed false; set is not awaited.
\* The panel or window the case opens and the notification it schedules
\* touch nothing of the script's state.
ContextMenuClicked ==
  /\ clicks < MaxClicks
  /\ \E item \in MenuItems :
       LET selectionText == clicks + 1
           contextData == [contextSelection |-> selectionText,
                           actionProcessed |-> FALSE]
           items == [contextAction |-> ContextActionOf(item)] @@ contextData
       IN /\ currentSelection' = selectionText
          /\ storageCalls' = IF ContextActionOf(item) # ""
                               THEN Append(storageCalls, SetCall(items))
                               ELSE storageCalls
  /\ clicks' = clicks + 1
  /\ UNCHANGED <<contextStore, timers, checks, pageVars>>

\* onMessage, case 'checkContextAction': handleCheckContextAction runs to its
\* await of chrome.storage.local.get
CheckContextAction ==
  /\ Len(checks) < MaxChecks
  /\ checks' = Append(checks, [at |-> "get"])
  /\ storageCalls' = Append(storageCalls, GetCall(Len(checks) + 1))
  /\ UNCHANGED <<currentSelection, contextStore, timers, clicks, pageVars>>

\* chrome.storage.local performs the oldest call: a get reads the keys as
\* they stand and its promise resolves with them
StoragePerforms ==
  /\ storageCalls # <<>>
  /\ LET call == Head(storageCalls)
     IN CASE call.op = "get" ->
               /\ checks' = [checks EXCEPT ![call.check] =
                               [at |-> "got", result |-> contextStore]]
               /\ UNCHANGED contextStore
          [] call.op = "set" ->
               /\ contextStore' = StorageSet(contextStore, call.items)
               /\ UNCHANGED checks
          [] call.op = "remove" ->
               /\ contextStore' = StorageRemove(contextStore, ContextKeys)
               /\ UNCHANGED checks
  /\ storageCalls' = Tail(storageCalls)
  /\ UNCHANGED <<currentSelection, timers, clicks, pageVars>>

\* the oldest call is a get and its promise rejects
StorageGetFails ==
  /\ storageCalls # <<>>
  /\ Head(storageCalls).op = "get"
  /\ checks' = [checks EXCEPT ![Head(storageCalls).check] = [at |-> "rejected"]]
  /\ storageCalls' = Tail(storageCalls)
  /\ UNCHANGED <<currentSelection, contextStore, timers, clicks, pageVars>>

\* handleCheckContextAction after the await, for a result that holds an
\* unprocessed action: it responds, calls set({actionProcessed: true})
\* without awaiting it and schedules the removal of the keys
ReportsAction ==
  \E i \in DOMAIN checks :
    /\ checks[i].at = "got"
    /\ Unprocessed(checks[i].result)
    /\ checks' = [checks EXCEPT ![i] =
                    [at |-> "responded",
                     response |-> HasAction(checks[i].result, currentSelection)]]
    /\ storageCalls' = Append(storageCalls, SetCall([actionProcessed |-> TRUE]))
    /\ timers' = timers + 1
    /\ UNCHANGED <<currentSelection, contextStore, clicks, pageVars>>

\* handleCheckContextAction after the await: the else branch, and the catch
\* block of a rejected get
ReportsNoAction ==
  \E i \in DOMAIN checks :
    /\ \/ checks[i].at = "got" /\ ~Unprocessed(checks[i].result)
       \/ checks[i].at = "rejected"
    /\ checks' = [checks EXCEPT ![i] = [at |-> "responded", response |-> NoAction]]
    /\ UNCHANGED <<currentSelection, contextStore, storageCalls, timers, clicks,
                   pageVars>>

\* the setTimeout callback of handleCheckContextAction: remove is called
TimerFires ==
  /\ timers > 0
  /\ timers' = timers - 1
  /\ storageCalls' = Append(storageCalls, RemoveCall)
  /\ UNCHANGED <<currentSelection, contextStore, checks, clicks, pageVars>>

NextB ==
  \/ ContextMenuClicked
  \/ CheckContextAction
  \/ StoragePerforms
  \/ StorageGetFails
  \/ ReportsAction
  \/ ReportsNoAction
  \/ TimerFires

SpecB == Init /\ [][NextB]_vars

----------------------------------------------------------------------------
\* What the claims speak of

CallsOf(cb) == SelectSeq(calls, LAMBDA c : c.cb = cb)
CallsBy(cb, by) == SelectSeq(calls, LAMBDA c : c.cb = cb /\ c.by = by)
Terminals == SelectSeq(calls, LAMBDA c : c.cb \in {"onComplete", "onError"})

\* the deltas given to onChunk, in order
Delivered == [i \in 1..Len(CallsOf("onChunk")) |-> CallsOf("onChunk")[i].arg]

\* reading ended with the reader reporting done
Exhausted == pc = "done" /\ readEnd = "exhausted"

\* the lines of the body that end with a newline
TerminatedFrames == IF sealed THEN SubSeq(frames, 1, Len(frames) - 1) ELSE frames

NonBlank(fs) == SelectSeq(fs, LAMBDA f : ~IsBlank(f))

IsContentFrame(f) ==
  /\ ~IsBlank(f)
  /\ ParseChunk(apiType, f).kind = "chunk"
  /\ ParseChunk(apiType, f).content # <<>>

IsMalformed(f) == ~IsBlank(f) /\ ParseChunk(apiType, f).kind = "throw"

SignalsDone(f) ==
  ~IsBlank(f) /\ ParseChunk(apiType, f).kind = "chunk" /\ ParseChunk(apiType, f).done

DeltasOf(fs) ==
  LET cs == SelectSeq(fs, IsContentFrame)
  IN [i \in 1..Len(cs) |-> ParseChunk(apiType, cs[i]).content]

\* the frames up to and including the first one that signals completion
UpToFirstDone(fs) ==
  IF \E i \in 1..Len(fs) : SignalsDone(fs[i])
    THEN SubSeq(fs, 1, CHOOSE i \in 1..Len(fs) :
                         SignalsDone(fs[i]) /\ \A j \in 1..(i - 1) : ~SignalsDone(fs[j]))
    ELSE fs

\* only the last frame, if any, signals completion
DoneOnlyAtEnd(fs) == \A i \in 1..(Len(fs) - 1) : ~SignalsDone(fs[i])

Last(s) == s[Len(s)]

IsPrefix(p, s) == Len(p) <= Len(s) /\ SubSeq(s, 1, Len(p)) = p

RECURSIVE IsSubseq(_, _)
IsSubseq(p, s) ==
  IF p = <<>> THEN TRUE
  ELSE IF s = <<>> THEN FALSE
  ELSE IF Head(p) = Head(s) THEN IsSubseq(Tail(p), Tail(s))
  ELSE IsSubseq(p, Tail(s))

----------------------------------------------------------------------------
\* C1: every request made through sendMessage (success, HTTP status error,
\* transport error, read error) invokes exactly one of onComplete / onError,
\* once, over the whole call chain.  Stated for callbacks that do not throw.
C1_ExactlyOneTerminal ==
  (pc = "done" /\ request.sent /\ cbThrows = {}) => Len(Terminals) = 1

\* C2: a body read to exhaustion without a read error: onComplete is invoked
\* exactly once, not before the read that reports done, with the in-order
\* concatenation of the deltas given to onChunk.
C2_CompleteOnceWithFullText ==
  /\ pc # "done" => CallsOf("onComplete") = <<>>
  /\ Exhausted =>
       /\ Len(CallsOf("onComplete")) = 1
       /\ CallsOf("onComplete")[1].by = HSR
       /\ CallsOf("onComplete")[1].arg = Concat(Delivered)

C2_Witness ==
  Exhausted /\ Len(Delivered) >= 2 /\ Len(CallsOf("onComplete")) = 1

\* C3: a response whose status is not 2xx: onError is invoked with an error
\* that carries the status, no reader is obtained on the body, and neither
\* onChunk nor onComplete is invoked.
C3_HttpErrorShortCircuit ==
  (response.arrived /\ response.status \notin 200..299) =>
    /\ pc = "done"
    /\ reader = "none"
    /\ releases = 0
    /\ Len(calls) = 1
    /\ calls[1].cb = "onError"
    /\ calls[1].arg = HttpError(response.status)

C3_Witness ==
  pc = "done" /\ response.arrived /\ response.status = 500 /\ Len(calls) = 1

\* C4: handleStreamResponse taken alone: when reader.read() throws, it invokes
\* onError exactly once, with that error, and does not invoke onComplete,
\* however many deltas were delivered before.
C4_ReadErrorReportedOnce ==
  readEnd = "error" =>
    /\ Len(CallsBy("onError", HSR)) = 1
    /\ CallsBy("onError", HSR)[1].arg = ReadError
    /\ CallsOf("onComplete") = <<>>

C4_Witness ==
  readEnd = "error" /\ Len(Delivered) >= 1 /\ Len(CallsBy("onError", HSR)) = 1

C6_TerminalIsLast ==
  \A i, j \in DOMAIN calls :
    (i < j /\ calls[i].cb \in {"onComplete", "onError"}) => calls[j].cb # "onChunk"

C6_Witness ==
  /\ pc = "done"
  /\ Len(calls) >= 3
  /\ calls[1].cb = "onChunk"
  /\ calls[Len(calls)].cb \in {"onComplete", "onError"}

GoodBadGood ==
  /\ ~sealed
  /\ Len(frames) = 3
  /\ IsContentFrame(frames[1])
  /\ IsMalformed(frames[2])
  /\ IsContentFrame(frames[3])

\* C8 as claimed: for a stream of a well-formed, a malformed and a well-formed
\* frame both deltas are delivered, onError is not invoked and onComplete is
\* invoked once.  Stated for callbacks that do not throw.
C8_BothDeltasDelivered ==
  (Exhausted /\ cbThrows = {} /\ GoodBadGood) =>
    /\ Delivered = DeltasOf(<<frames[1], frames[3]>>)
    /\ CallsOf("onError") = <<>>
    /\ Len(CallsOf("onComplete")) = 1

\* C8 as amended: a malformed frame is skipped without aborting the stream:
\* with callbacks that do not throw, a stream that holds a malformed frame
\* and is read to exhaustion ends with onComplete invoked once and onError
\* not invoked, and the deltas of the well-formed frames are delivered up to
\* and including the first frame that signals completion: both deltas of a
\* well-formed, malformed, well-formed stream whose first frame does not
\* signal completion.
C8_MalformedFrameSkipped ==
  (Exhausted /\ cbThrows = {} /\ \E i \in 1..Len(TerminatedFrames) :
                                     IsMalformed(TerminatedFrames[i])) =>
    /\ CallsOf("onError") = <<>>
    /\ Len(CallsOf("onComplete")) = 1
    /\ IsPrefix(DeltasOf(UpToFirstDone(TerminatedFrames)), Delivered)
    /\ (GoodBadGood /\ ~SignalsDone(frames[1])) =>
         Delivered = DeltasOf(<<frames[1], frames[3]>>)

C8_Witness ==
  /\ Exhausted
  /\ cbThrows = {}
  /\ GoodBadGood
  /\ ~SignalsDone(frames[1])
  /\ Len(Delivered) = 2
  /\ Len(CallsOf("onComplete")) = 1

----------------------------------------------------------------------------
\* The validator

RolesOf(ms) == [i \in 1..Len(ms) |-> ms[i].role]

\* at most one system entry, first if present, and no two adjacent entries
\* with the same role
WellPatterned(ms) ==
  /\ \A i \in 1..Len(ms) : ms[i].role = "system" => i = 1
  /\ \A i \in 1..(Len(ms) - 1) : ms[i].role # ms[i + 1].role

\* the list holds at most one system entry, and holds it first
SystemOnlyFirst(ms) == \A i \in 2..Len(ms) : ms[i].role # "system"

NonSystem(ms) == SelectSeq(ms, LAMBDA m : m.role # "system")

C10_FirstNonSystemIsUser ==
  (vpc = "validated" /\ NonSystem(vOut) # <<>>) => NonSystem(vOut)[1].role = "user"

\* the contents of the entries of role r that the validator does not skip
Pieces(ms, r) ==
  LET kept == SelectSeq(ms, LAMBDA m : m.role = r /\ ~IsEmptyContent(m.content))
  IN [i \in 1..Len(kept) |-> kept[i].content]

\* a content cut at every blank-line separator
RECURSIVE SplitParagraphs(_, _, _)
SplitParagraphs(c, cur, acc) ==
  IF c = <<>> THEN Append(acc, cur)
  ELSE IF StartsWith(c, MergeSeparator)
    THEN SplitParagraphs(SubSeq(c, 3, Len(c)), <<>>, Append(acc, cur))
  ELSE SplitParagraphs(Tail(c), Append(cur, Head(c)), acc)

\* the paragraphs of the entries of role r, in order
RECURSIVE ParagraphsOf(_, _)
ParagraphsOf(ms, r) ==
  IF ms = <<>> THEN <<>>
  ELSE (IF Head(ms).role = r THEN SplitParagraphs(Head(ms).content, <<>>, <<>>)
        ELSE <<>>) \o ParagraphsOf(Tail(ms), r)

\* the entries the validator does not skip
Kept(ms) == SelectSeq(ms, LAMBDA m : ~IsEmptyContent(m.content))

\* the number of entries that start a new entry of the output: a system
\* entry, or an entry whose role differs from the kept entry before it
Runs(ms) ==
  Cardinality({ i \in 1..Len(ms) :
                  i = 1 \/ ms[i].role = "system" \/ ms[i].role # ms[i - 1].role })

\* C11: a non-system entry whose role is the role of the retained entry just
\* before it adds no entry: its content is appended to that entry after a
\* blank line, so for each role the non-empty contents of the input are all in
\* the output, in order ([user:x, user:y, assistant:x] gives
\* [user:"x\n\ny", assistant:x]).
C11_MergePreservesContents ==
  vpc = "validated" =>
    /\ Len(vOut) = Runs(Kept(vIn))
    /\ \A r \in Roles : ParagraphsOf(vOut, r) = Pieces(vIn, r)
    /\ vIn = <<Msg("user", <<"x">>), Msg("user", <<"y">>), Msg("assistant", <<"x">>)>>
         => vOut = <<Msg("user", <<"x", NL, NL, "y">>), Msg("assistant", <<"x">>)>>

C11_Witness ==
  /\ vpc = "validated"
  /\ vIn = <<Msg("user", <<"x">>), Msg("user", <<"y">>), Msg("assistant", <<"x">>)>>
  /\ vOut = <<Msg("user", <<"x", NL, NL, "y">>), Msg("assistant", <<"x">>)>>

\* C33: validateMessagePattern is idempotent: applied to its own output it
\* returns a list with the same roles and contents.
C33_ValidateIdempotent ==
  vpc = "validated" => validateMessagePattern(vOut) = vOut

\* a list that was changed by the validation: a blank entry between two user
\* entries was dropped and the two were merged
C33_Witness ==
  /\ vpc = "validated"
  /\ vIn = <<Msg("user", <<"x">>), Msg("assistant", <<SP>>), Msg("user", <<"y">>)>>
  /\ vOut = <<Msg("user", <<"x", NL, NL, "y">>)>>
  /\ validateMessagePattern(vOut) = vOut

----------------------------------------------------------------------------
\* The request

\* C12: every request body built by sendOllamaMessage / sendVLLMMessage has
\* stream equal to true, model equal to config.model and messages equal to
\* the validated message list, whatever config.params holds.
C12_BodyFieldsFixed ==
  request.sent =>
    /\ request.body.stream = TRUE
    /\ request.body.model = Model
    /\ request.body.messages =
         validateMessagePattern(BuildMessages(args.message, args.conversationHistory))

\* C20: the Authorization: Bearer <apiKey> header is on a request exactly
\* when the vllm variant makes it; a request of the ollama variant carries
\* the Content-Type header only, and its body holds no key.
C20_BearerOnlyForVLLM ==
  request.sent =>
    /\ ("authorization" \in DOMAIN request.headers) <=> (apiType = "vllm")
    /\ apiType = "vllm" => request.headers.authorization = <<"Bearer", ApiKey>>
    /\ apiType = "ollama" =>
         /\ DOMAIN request.headers = {"contentType"}
         /\ DOMAIN request.body \subseteq
              {"model", "messages", "stream"} \cup DOMAIN params

C20_Witness ==
  /\ request.sent
  /\ apiType = "vllm"
  /\ params = VLLMParams
  /\ request.headers.authorization = <<"Bearer", ApiKey>>

\* C16: with an apiType that is neither 'ollama' nor 'vllm', sendMessage
\* fails at once with the unsupported-type error: no request is issued, no
\* reader is taken and no callback is invoked.
C16_UnsupportedFailsBeforeFetch ==
  apiType \notin Supported =>
    /\ pc = "done"
    /\ outcome = Rejected(UnsupportedError(apiType))
    /\ ~request.sent
    /\ fetchCount = 0
    /\ reader = "none"
    /\ calls = <<>>

C16_Witness ==
  /\ pc = "done"
  /\ apiType = "other"
  /\ outcome.state = "rejected"
  /\ outcome.error.kind = "unsupported"
  /\ fetchCount = 0

----------------------------------------------------------------------------
\* The vllm frames

\* the payload of a data line
DataOf(line) == SubSeq(line, Len(DataPrefix) + 1, Len(line))

DoneLine == DataPrefix \o DoneLiteral

\* a data line with a JSON object as payload
IsJSONFrame(line) ==
  StartsWith(line, DataPrefix) /\ DataOf(line) # DoneLiteral /\ JSONParse(DataOf(line)).ok

\* the lines of the current response handed to the vllm parser
VLLMParsed == IF apiType = "vllm" THEN parsed ELSE <<>>

\* C17: in the vllm variant the done flag of a parsed chunk is true exactly
\* when the frame's finish_reason is a non-null value: a frame with a null
\* finish_reason, or with no finish_reason, is not treated as completion.
C17_DoneIffFinishReason ==
  \A i \in DOMAIN VLLMParsed :
    IsJSONFrame(VLLMParsed[i]) =>
      (parseVLLMChunk(VLLMParsed[i]).done <=> JSONParse(DataOf(VLLMParsed[i])).flag = "1")

\* C18: in the vllm variant the frame data: [DONE] gives a chunk with empty
\* content and done = true: it causes no onChunk invocation, no parse error
\* and no onError, and a stream read to exhaustion still ends with
\* onComplete.  Stated for an onComplete callback that does not throw.
C18_DoneLiteralCompletesQuietly ==
  /\ \A i \in DOMAIN parseErrors : apiType = "vllm" => parseErrors[i] # DoneLine
  /\ (\A i \in DOMAIN VLLMParsed : VLLMParsed[i] = DoneLine) =>
       (apiType = "vllm" => CallsOf("onChunk") = <<>>)
  /\ (Exhausted /\ apiType = "vllm" /\ "onComplete" \notin cbThrows
        /\ \E i \in DOMAIN parsed : parsed[i] = DoneLine) =>
       /\ CallsOf("onError") = <<>>
       /\ Len(CallsOf("onComplete")) = 1
       /\ calls[Len(calls)].cb = "onComplete"
       /\ IsSubseq(Delivered, DeltasOf(TerminatedFrames))

C18_Witness ==
  /\ Exhausted
  /\ apiType = "vllm"
  /\ cbThrows = {}
  /\ Len(parsed) = 2
  /\ parsed[2] = DoneLine
  /\ Len(Delivered) = 1
  /\ parseErrors = <<>>
  /\ Len(CallsOf("onComplete")) = 1

\* C19: the reader taken from the response body is released exactly once on
\* every exit of handleStreamResponse (normal completion, an exception of
\* reader.read(), an exception of the onComplete or onError callback), and
\* not before.
C19_ReleasedOnceOnEveryExit ==
  /\ reader = "none" => releases = 0
  /\ reader = "locked" => (releases = 0 /\ pc = "reading")
  /\ reader = "released" => (releases = 1 /\ pc = "done")
  /\ (pc = "done" /\ readEnd # "none") => (reader = "released" /\ releases = 1)

C19_Witness ==
  /\ pc = "done"
  /\ readEnd = "exhausted"
  /\ "onComplete" \in cbThrows
  /\ outcome.state = "rejected"
  /\ releases = 1

----------------------------------------------------------------------------
\* Requests and reads

\* C21: one call of sendMessage issues at most one HTTP POST: after a
\* transport error, an HTTP status error or a stream read error no other
\* request is issued.
C21_AtMostOnePost ==
  /\ fetchCount <= 1
  /\ request.sent <=> fetchCount = 1
  /\ (pc = "done" /\ outcome.state = "rejected"
        /\ outcome.error.kind \in {"transport", "http", "read"}) => fetchCount = 1

C21_Witness ==
  /\ pc = "done"
  /\ outcome = Rejected(TransportError)
  /\ fetchCount = 1

\* the lines split off by the read that is this step
NewLines == SubSeq(yielded', Len(yielded) + 1, Len(yielded'))

C23_UnterminatedTailDiscarded ==
  (Exhausted /\ sealed) =>
    /\ buffer = frames[Len(frames)]
    /\ yielded = SubSeq(frames, 1, Len(frames) - 1)
    /\ IsSubseq(parsed, NonBlank(yielded))
    /\ IsSubseq(Delivered, DeltasOf(yielded))
    /\ fullResponse = Concat(Delivered)
    /\ \A i \in DOMAIN calls :
         calls[i].cb = "onComplete" => calls[i].arg = Concat(Delivered)

C23_Witness ==
  /\ Exhausted
  /\ sealed
  /\ cbThrows = {}
  /\ Len(frames) = 2
  /\ IsContentFrame(frames[1])
  /\ IsContentFrame(frames[2])
  /\ ~SignalsDone(frames[1])
  /\ Len(Delivered) = 1
  /\ CallsOf("onComplete")[1].arg = Delivered[1]

\* a frame that signals completion and carries no delta
DoneWithoutContent(f) == SignalsDone(f) /\ ~IsContentFrame(f)

\* C32: when the caller's onChunk throws while handling a delta, the throw is
\* handled like a parse error of the frame: the delta stays in the
\* accumulated text, later frames are still processed, onError is not
\* invoked and onComplete is invoked with the full accumulated text.
C32_ChunkCallbackThrowIsSkipped ==
  ("onChunk" \in cbThrows /\ "onComplete" \notin cbThrows /\ Exhausted) =>
    /\ CallsOf("onError") = <<>>
    /\ Len(CallsOf("onComplete")) = 1
    /\ Last(calls).cb = "onComplete"
    /\ Last(calls).arg = Concat(Delivered)
    /\ fullResponse = Concat(Delivered)
    /\ (\A i \in DOMAIN TerminatedFrames : ~DoneWithoutContent(TerminatedFrames[i]))
         => /\ parsed = NonBlank(TerminatedFrames)
            /\ Delivered = DeltasOf(TerminatedFrames)

\* onChunk threw on two deltas, the first in a frame that signals completion
C32_Witness ==
  /\ "onChunk" \in cbThrows
  /\ Exhausted
  /\ Len(TerminatedFrames) >= 2
  /\ IsContentFrame(TerminatedFrames[1])
  /\ SignalsDone(TerminatedFrames[1])
  /\ IsContentFrame(TerminatedFrames[2])
  /\ Len(Delivered) = 2
  /\ Len(CallsOf("onComplete")) = 1

\* C35 as stated: testConnection never throws, and returns true if and only
\* if the test request delivered a non-whitespace delta or a non-whitespace
\* full response.
C35_TrueIffContentArrived ==
  /\ test.at # "rejected"
  /\ test.at = "returned" => (test.value <=> ResponseReceived(calls))

\* C35: testConnection returns true if and only if the sendMessage call
\* resolved and delivered a non-whitespace delta or a non-whitespace full
\* response; it returns false for every failure of that call (HTTP status
\* error, transport error, read error, unsupported variant), also after
\* deltas were delivered; it throws only when initialize() throws, before any
\* request is made.
C35_TrueIffResolvedWithContent ==
  /\ test.at = "returned" =>
        /\ test.value <=> (outcome = Resolved /\ ResponseReceived(calls))
        /\ outcome # Resolved => ~test.value
  /\ test.at = "rejected" => (pc = "idle" /\ ~request.sent)

\* the test returned after a read error that followed a delivered delta
C35_Witness ==
  /\ test.at = "returned"
  /\ outcome = Rejected(ReadError)
  /\ ResponseReceived(calls)
  /\ ~test.value

----------------------------------------------------------------------------
\* The conversation

\* C15: after any sequence of conversation operations the in-memory
\* conversation holds at most 2 x MAX_HISTORY_TURNS messages.
C15_AtMostTenMessages ==
  Len(conversationHistory) <= 2 * MAX_HISTORY_TURNS

Calls(op) ==
  /\ lastOp'.op = op
  /\ Len(pendingWrites') >= Len(pendingWrites)
  /\ stored' = stored

\* C31: updateMessage(id, newContent) changes only the content and updatedAt
\* of the message with that id: its id, creation timestamp and role, and
\* every other message, are unchanged; when no message has that id the
\* conversation is unchanged and nothing is written to the store.
C31_UpdateChangesContentOnly ==
  [][ Calls("updateMessage") =>
        LET k == FindIndex(conversationHistory, lastOp'.id)
        IN /\ Len(conversationHistory') = Len(conversationHistory)
           /\ \A i \in DOMAIN conversationHistory :
                i # k => conversationHistory'[i] = conversationHistory[i]
           /\ k = 0 => UNCHANGED <<conversationHistory, pendingWrites, writes>>
           /\ k # 0 =>
                /\ conversationHistory'[k].content = lastOp'.content
                /\ DOMAIN conversationHistory'[k] =
                     DOMAIN conversationHistory[k] \cup {"updatedAt"}
                /\ \A f \in DOMAIN conversationHistory[k] \ {"content", "updatedAt"} :
                     conversationHistory'[k][f] = conversationHistory[k][f] ]_vars

\* the second of three messages stays as added while the first was updated
C31_Witness ==
  /\ lastOp.op = "updateMessage"
  /\ Len(conversationHistory) = 3
  /\ conversationHistory[1].id = lastOp.id
  /\ conversationHistory[1].content = <<"y">>
  /\ conversationHistory[1].timestamp = conversationHistory[1].id
  /\ "updatedAt" \in DOMAIN conversationHistory[1]
  /\ "updatedAt" \notin DOMAIN conversationHistory[2]

----------------------------------------------------------------------------
\* The send guard

\* the handlers whose admitted send has reached the given point
TasksAt(at) == { h \in Handlers : tasks[h].at = at }

InProgress == { h \in Handlers : tasks[h].at # "idle" }

\* C13: for any interleaving of handleSendMessage, sendMessage and
\* sendMessageRaw on one application, at most one call of
\* llmManager.sendMessage is in flight: a send is admitted only when none
\* is in progress.
C13_AtMostOneSendInFlight ==
  /\ Cardinality(TasksAt("llm")) <= 1
  /\ Cardinality(InProgress) <= 1

C13_Witness ==
  /\ admitted = 2
  /\ TasksAt("llm") = {"sendMessageRaw"}
  /\ tasks["handleSendMessage"].at = "idle"
  /\ tasks["sendMessageRaw"].at = "llm"
  /\ Len(tasks["sendMessageRaw"].received) = 1

\* C14: whenever an admitted send finishes, by completion or by any error,
\* isSendingMessage is false again and the send control is enabled;
\* isSendingMessage is true only while an admitted send is in progress.
C14_GuardResetWhenSendEnds ==
  /\ isSendingMessage <=> InProgress # {}
  /\ sendButtonEnabled <=> ~isSendingMessage

C14_Witness ==
  /\ admitted = 2
  /\ tasks["sendMessage"] = Finished("failed", Delta)
  /\ tasks["handleSendMessage"] = Finished("completed", Delta)
  /\ InProgress = {}
  /\ ~isSendingMessage
  /\ sendButtonEnabled

----------------------------------------------------------------------------
\* The sends of LLMChatApp and the conversation

Called == lastRequest.by # "none"

\* the text holds the part as a run of consecutive characters
Contains(text, part) ==
  \E i \in 0..(Len(text) - Len(part)) : SubSeq(text, i + 1, i + Len(part)) = part

\* the handler's send ends in this step with the given result
Ends(h, result) ==
  /\ tasks[h].at = "llm"
  /\ tasks'[h].at = "idle"
  /\ tasks'[h].result = result

\* C24: the messages of the request sendToLLM causes are one system entry,
\* first, then entries that alternate between user and assistant, starting
\* with user and ending with a user entry that contains the new message.
C24_RequestWellFormed ==
  Called =>
    LET ms == lastRequest.messages
    IN /\ Len(ms) >= 2
       /\ ms[1] = Msg("system", SystemPrompt)
       /\ \A i \in 2..Len(ms) :
            ms[i].role = (IF i % 2 = 0 THEN "user" ELSE "assistant")
       /\ Last(ms).role = "user"
       /\ Contains(Last(ms).content, lastRequest.message)

\* a request made after a completed turn: system, user, assistant, user
C24_Witness ==
  /\ Called
  /\ Len(lastRequest.conversation) = 3
  /\ Len(lastRequest.messages) = 4

\* C25: the history sendToLLM passes is the formatted conversation as it was
\* before the current user message was added, so every earlier non-empty
\* turn, a previous user message that got no reply included, is passed.
C25_HistoryIsEarlierConversation ==
  Called =>
    lastRequest.history = getFormattedHistory(AllButLast(lastRequest.conversation))

\* C26: while a guarded send is in flight, a step that is not a step of that
\* send leaves the conversation as it is.
C26_NoOtherMutationDuringSend ==
  [][ (isSendingMessage /\ \A h \in Handlers : tasks'[h] = tasks[h])
        => conversationHistory' = conversationHistory ]_vars

C28_FailedSendAddsNothing ==
  [][ \A h \in AllHandlers : Ends(h, "failed") =>
        conversationHistory' = conversationHistory ]_vars

\* a send failed after a delta was received; its user message is the last
\* message of the conversation
C28_Witness ==
  /\ tasks["handleSendMessage"] = Finished("failed", Delta)
  /\ lastRequest.by = "handleSendMessage"
  /\ conversationHistory # <<>>
  /\ Last(conversationHistory).isUser
  /\ \A i \in DOMAIN conversationHistory : conversationHistory[i].isUser

\* C29: an invocation the guard returns from changes neither the
\* conversation, nor the guard flag, nor the send control, nor any send, and
\* issues no request.
C29_RejectedSendHasNoEffect ==
  [][ rejected' # rejected =>
        UNCHANGED <<conversationVars, stored, isSendingMessage,
                    sendButtonEnabled, tasks, admitted, lastRequest, request,
                    fetchCount>> ]_vars

\* an invocation was turned away and a send is in flight with its flag set
C29_Witness ==
  /\ rejected = 1
  /\ isSendingMessage
  /\ ~sendButtonEnabled
  /\ TasksAt("llm") # {}

----------------------------------------------------------------------------
\* The context action

\* the requests answered hasAction = true with the selection of click k
ReportedTo(k) ==
  {i \in DOMAIN checks :
     /\ checks[i].at = "responded"
     /\ checks[i].response.hasAction
     /\ checks[i].response.selection = k}

\* C36: the context action stored by one context-menu click is reported
\* with hasAction = true to at most one checkContextAction request, however
\* the requests handled by the background script interleave.
C36_ReportedAtMostOnce ==
  \A k \in 1..MaxClicks : Cardinality(ReportedTo(k)) <= 1

====
